---------------------------- MODULE Spec2Model ----------------------------
(***************************************************************************)
(* Model of the Source-vs-D365 validator (src/app.py): value               *)
(* normalisation, the single-column and the multi-column comparison, and   *)
(* the Streamlit session that drives them.                                 *)
(*                                                                         *)
(* A string is a sequence of code points (naturals), so that Python's      *)
(* ordering of strings (code point by code point) and its whitespace and   *)
(* case rules can be computed.  None is the one raw value that is not a    *)
(* string.                                                                 *)
(***************************************************************************)
EXTENDS Integers, Sequences, FiniteSets, TLC

VARIABLES
    pc,             \* the function under way and whether it has returned
    raw,            \* norm_val: the raw value x
    normed,         \* norm_val: the value returned
    a_series,       \* compare_values_single: the source column
    b_series,       \* compare_values_single: the target column
    src_df,         \* the source table (of compare_files: the table a)
    d365_df,        \* the target table (of compare_files: the table b)
    src_cols,       \* the source columns asked for
    d365_cols,      \* the target columns asked for
    remove_dupes,   \* the "unique-only" checkbox
    index,          \* what the index builder returned, for each side
    result,         \* what the function under way returned, or how it ended
    session_state,  \* st.session_state: the keys present with their values
    out,            \* what the last run of the script rendered or printed
    fl_lines,       \* format_lines: the row numbers (lines)
    fl_limit        \* format_lines: the display limit (limit)

vars == <<pc, raw, normed, a_series, b_series, src_df, d365_df,
          src_cols, d365_cols, remove_dupes, index, result, session_state, out,
          fl_lines, fl_limit>>

-----------------------------------------------------------------------------
(* Bounds *)

MaxLen == 4         \* longest raw string given to norm_val
MaxRowsA == 3       \* most data rows of a source column
MaxRowsB == 2       \* most data rows of a target column
MaxRowsM == 2       \* most data rows of a table compared on a composite key
MaxRowsApp == 1     \* most data rows of a table loaded into the session
MaxRowsFA == 1      \* most data rows of the source file of a script
MaxRowsFB == 2      \* most data rows of the target file of a script
MaxLines == 3       \* longest short list given to format_lines, and largest small limit
MaxOver == 2        \* how far the long lists given to format_lines pass the default limit

\* the smallest number of columns the multi-column page offers
NumCols == 2

-----------------------------------------------------------------------------
(* Strings *)

NBSP == 160
SP == 32

\* None, the raw value that is not a string
None == <<-1>>

\* TAB, SPACE, NBSP, "A", "a", and U+2102 (DOUBLE-STRUCK CAPITAL C: an
\* upper-case letter, category Lu, that has no lower-case form)
Alphabet == {9, SP, NBSP, 65, 97, 8450}

\* str.isspace() on the alphabet
IsSpace(c) == c \in {9, 10, 11, 12, 13, 28, 29, 30, 31, SP, 133, NBSP}

\* one character of str.lower()
LowerChar(c) == IF c \in 65..90 THEN c + 32 ELSE c

\* str.lower()
Lower(s) == [i \in 1..Len(s) |-> LowerChar(s[i])]

\* str.replace(old, new) for single characters
Replace(s, old, new) == [i \in 1..Len(s) |-> IF s[i] = old THEN new ELSE s[i]]

RECURSIVE LStrip(_)
LStrip(s) == IF s # <<>> /\ IsSpace(Head(s)) THEN LStrip(Tail(s)) ELSE s

RECURSIVE RStrip(_)
RStrip(s) ==
    IF s # <<>> /\ IsSpace(s[Len(s)]) THEN RStrip(SubSeq(s, 1, Len(s) - 1)) ELSE s

\* str.strip()
Strip(s) == RStrip(LStrip(s))

\* str.split(): the maximal runs of non-whitespace characters, in order
RECURSIVE SplitFrom(_, _, _)
SplitFrom(s, word, acc) ==
    IF s = <<>>
    THEN IF word = <<>> THEN acc ELSE Append(acc, word)
    ELSE IF IsSpace(Head(s))
         THEN SplitFrom(Tail(s), <<>>, IF word = <<>> THEN acc ELSE Append(acc, word))
         ELSE SplitFrom(Tail(s), Append(word, Head(s)), acc)

Split(s) == SplitFrom(s, <<>>, <<>>)

\* " ".join(words)
RECURSIVE JoinSP(_)
JoinSP(words) ==
    IF words = <<>> THEN <<>>
    ELSE IF Len(words) = 1 THEN words[1]
    ELSE words[1] \o <<SP>> \o JoinSP(Tail(words))

\* mutant of norm_val: inner whitespace is not collapsed
norm_val_NoCollapse(x) ==
    LET s0 == IF x = None THEN <<>> ELSE x
        s1 == Replace(s0, NBSP, SP)
    IN  Lower(Strip(s1))

norm_val(x) ==
    LET s0 == IF x = None THEN <<>> ELSE x
        s1 == Replace(s0, NBSP, SP)
        s2 == Lower(Strip(s1))
    IN  JoinSP(Split(s2))

-----------------------------------------------------------------------------
(* Ordering and formatting *)

\* Python's < on strings: code point by code point, a proper prefix first
RECURSIVE StrLess(_, _)
StrLess(s, t) ==
    IF t = <<>> THEN FALSE
    ELSE IF s = <<>> THEN TRUE
    ELSE IF Head(s) # Head(t) THEN Head(s) < Head(t)
    ELSE StrLess(Tail(s), Tail(t))

\* Python's < on tuples of strings: component by component
RECURSIVE TupleLess(_, _)
TupleLess(k, l) ==
    IF l = <<>> THEN FALSE
    ELSE IF k = <<>> THEN TRUE
    ELSE IF Head(k) # Head(l) THEN StrLess(Head(k), Head(l))
    ELSE TupleLess(Tail(k), Tail(l))

\* mutant of sorted_str: descending order
RECURSIVE sorted_str_Descending(_)
sorted_str_Descending(S) ==
    IF S = {} THEN <<>>
    ELSE LET m == CHOOSE x \in S : \A y \in S \ {x} : StrLess(y, x)
         IN  <<m>> \o sorted_str_Descending(S \ {m})

\* sorted() of a set of strings
RECURSIVE sorted_str(_)
sorted_str(S) ==
    IF S = {} THEN <<>>
    ELSE LET m == CHOOSE x \in S : \A y \in S \ {x} : StrLess(x, y)
         IN  <<m>> \o sorted_str(S \ {m})

\* sorted() of a set of tuples of strings
RECURSIVE sorted_tuple(_)
sorted_tuple(S) ==
    IF S = {} THEN <<>>
    ELSE LET m == CHOOSE x \in S : \A y \in S \ {x} : TupleLess(x, y)
         IN  <<m>> \o sorted_tuple(S \ {m})

\* ", ".join(str(x) for x in lines)
RECURSIVE JoinLines(_)
JoinLines(lines) ==
    IF lines = <<>> THEN ""
    ELSE IF Len(lines) = 1 THEN ToString(lines[1])
    ELSE ToString(lines[1]) \o ", " \o JoinLines(Tail(lines))

\* mutant of format_lines: the suffix states the length of the whole list
format_lines_CountsAll(lines, limit) ==
    IF lines = <<>> THEN ""
    ELSE IF Len(lines) <= limit THEN JoinLines(lines)
    ELSE JoinLines(SubSeq(lines, 1, limit)) \o ", ... (+"
             \o ToString(Len(lines)) \o " more)"

format_lines(lines, limit) ==
    IF lines = <<>> THEN ""
    ELSE IF Len(lines) <= limit THEN JoinLines(lines)
    ELSE JoinLines(SubSeq(lines, 1, limit)) \o ", ... (+"
             \o ToString(Len(lines) - limit) \o " more)"

\* the default of format_lines' limit
DefaultLimit == 50

\* dict.get(k, [])
GetLines(idx, k) == IF k \in DOMAIN idx THEN idx[k] ELSE <<>>

\* mutant of SetDefaultAppend: the row replaces the list instead of joining it
SetDefaultAppend_Overwrite(idx, k, row) ==
    [j \in DOMAIN idx \cup {k} |-> IF j = k THEN <<row>> ELSE idx[j]]

\* dict.setdefault(k, []).append(row)
SetDefaultAppend(idx, k, row) ==
    IF k \in DOMAIN idx
    THEN [idx EXCEPT ![k] = Append(@, row)]
    ELSE [j \in DOMAIN idx \cup {k} |-> IF j = k THEN <<row>> ELSE idx[j]]

\* the elements of a list
Elems(list) == {list[i] : i \in 1..Len(list)}

\* mutant of value_counts: presence instead of the number of occurrences
value_counts_Presence(list) == [v \in Elems(list) |-> 1]

\* pd.Series(list).value_counts(): each value of the list with its count
value_counts(list) ==
    [v \in Elems(list) |-> Cardinality({i \in 1..Len(list) : list[i] = v})]

\* Series.get(v, 0)
GetCount(counts, v) == IF v \in DOMAIN counts THEN counts[v] ELSE 0

\* [x for x in list if keep(x)]
RECURSIVE NonBlank(_)
NonBlank(list) ==
    IF list = <<>> THEN <<>>
    ELSE IF Head(list) # <<>> THEN <<Head(list)>> \o NonBlank(Tail(list))
    ELSE NonBlank(Tail(list))

-----------------------------------------------------------------------------
(* Single column *)

\* mutant of build_index_map_single_from: blank values are indexed too
RECURSIVE build_index_map_single_from_KeepBlank(_, _, _, _)
build_index_map_single_from_KeepBlank(series, i, norm_values, index_map) ==
    IF i > Len(series)
    THEN [norm_values |-> norm_values, index_map |-> index_map]
    ELSE LET row_num == i + 1
             v == norm_val(series[i])
         IN  build_index_map_single_from_KeepBlank(
                 series, i + 1, Append(norm_values, v),
                 SetDefaultAppend(index_map, v, row_num))

\* the loop of build_index_map_single from the i-th value on
RECURSIVE build_index_map_single_from(_, _, _, _)
build_index_map_single_from(series, i, norm_values, index_map) ==
    IF i > Len(series)
    THEN [norm_values |-> norm_values, index_map |-> index_map]
    ELSE LET row_num == i + 1
             v == norm_val(series[i])
         IN  build_index_map_single_from(
                 series, i + 1, Append(norm_values, v),
                 IF v # <<>> THEN SetDefaultAppend(index_map, v, row_num)
                 ELSE index_map)

build_index_map_single(series) ==
    build_index_map_single_from(series, 1, <<>>, <<>>)

\* mutant of single_counts_from: each listed value counts once
RECURSIVE single_counts_from_PerKey(_, _, _, _, _, _, _)
single_counts_from_PerKey(all_vals, i, a_counts, b_counts, a_idx, b_idx, acc) ==
    IF i > Len(all_vals) THEN acc
    ELSE LET v == all_vals[i]
             a_c == GetCount(a_counts, v)
             b_c == GetCount(b_counts, v)
             entry == [value |-> v, source_count |-> a_c, d365_count |-> b_c,
                       source_lines |-> format_lines(GetLines(a_idx, v), DefaultLimit),
                       d365_lines |-> format_lines(GetLines(b_idx, v), DefaultLimit)]
             acc1 == IF a_c > b_c
                     THEN [acc EXCEPT !.missing_count = @ + 1,
                                      !.missing_details = Append(@, entry)]
                     ELSE acc
             acc2 == IF b_c > a_c
                     THEN [acc1 EXCEPT !.extra_count = @ + 1,
                                       !.extra_details = Append(@, entry)]
                     ELSE acc1
         IN  single_counts_from_PerKey(all_vals, i + 1, a_counts, b_counts, a_idx,
                                       b_idx, acc2)

\* the loop over all_vals in duplicate-aware mode, from the i-th value on
RECURSIVE single_counts_from(_, _, _, _, _, _, _)
single_counts_from(all_vals, i, a_counts, b_counts, a_idx, b_idx, acc) ==
    IF i > Len(all_vals) THEN acc
    ELSE LET v == all_vals[i]
             a_c == GetCount(a_counts, v)
             b_c == GetCount(b_counts, v)
             entry == [value |-> v, source_count |-> a_c, d365_count |-> b_c,
                       source_lines |-> format_lines(GetLines(a_idx, v), DefaultLimit),
                       d365_lines |-> format_lines(GetLines(b_idx, v), DefaultLimit)]
             acc1 == IF a_c > b_c
                     THEN [acc EXCEPT !.missing_count = @ + (a_c - b_c),
                                      !.missing_details = Append(@, entry)]
                     ELSE acc
             acc2 == IF b_c > a_c
                     THEN [acc1 EXCEPT !.extra_count = @ + (b_c - a_c),
                                       !.extra_details = Append(@, entry)]
                     ELSE acc1
         IN  single_counts_from(all_vals, i + 1, a_counts, b_counts, a_idx, b_idx, acc2)

\* mutant of single_unique: the extra rows take their lines from the source index
single_unique_SourceLines(a_unique, b_unique, a_idx, b_idx) ==
    LET missing_vals == sorted_str(a_unique \ b_unique)
        extra_vals == sorted_str(b_unique \ a_unique)
    IN  [missing_count |-> Len(missing_vals),
         extra_count |-> Len(extra_vals),
         missing_details |->
             [i \in 1..Len(missing_vals) |->
                 [value |-> missing_vals[i],
                  source_lines |->
                      format_lines(GetLines(a_idx, missing_vals[i]), DefaultLimit)]],
         extra_details |->
             [i \in 1..Len(extra_vals) |->
                 [value |-> extra_vals[i],
                  d365_lines |->
                      format_lines(GetLines(a_idx, extra_vals[i]), DefaultLimit)]]]

\* unique-only mode of compare_values_single
single_unique(a_unique, b_unique, a_idx, b_idx) ==
    LET missing_vals == sorted_str(a_unique \ b_unique)
        extra_vals == sorted_str(b_unique \ a_unique)
    IN  [missing_count |-> Len(missing_vals),
         extra_count |-> Len(extra_vals),
         missing_details |->
             [i \in 1..Len(missing_vals) |->
                 [value |-> missing_vals[i],
                  source_lines |->
                      format_lines(GetLines(a_idx, missing_vals[i]), DefaultLimit)]],
         extra_details |->
             [i \in 1..Len(extra_vals) |->
                 [value |-> extra_vals[i],
                  d365_lines |->
                      format_lines(GetLines(b_idx, extra_vals[i]), DefaultLimit)]]]

\* duplicate-aware mode of compare_values_single
single_counts(a_nonblank, b_nonblank, a_idx, b_idx) ==
    LET a_counts == value_counts(a_nonblank)
        b_counts == value_counts(b_nonblank)
        all_vals == sorted_str(DOMAIN a_counts \cup DOMAIN b_counts)
    IN  single_counts_from(all_vals, 1, a_counts, b_counts, a_idx, b_idx,
            [missing_count |-> 0, extra_count |-> 0,
             missing_details |-> <<>>, extra_details |-> <<>>])

compare_values_single(a, b, dupes) ==
    LET a_built == build_index_map_single(a)
        b_built == build_index_map_single(b)
        a_idx == a_built.index_map
        b_idx == b_built.index_map
        a_nonblank == NonBlank(a_built.norm_values)
        b_nonblank == NonBlank(b_built.norm_values)
        a_unique == Elems(a_nonblank)
        b_unique == Elems(b_nonblank)
        diff == IF dupes
                THEN single_unique(a_unique, b_unique, a_idx, b_idx)
                ELSE single_counts(a_nonblank, b_nonblank, a_idx, b_idx)
    IN  [total_rows_a |-> Len(a),
         total_rows_b |-> Len(b),
         unique_a |-> Cardinality(a_unique),
         unique_b |-> Cardinality(b_unique),
         missing_count |-> diff.missing_count,
         extra_count |-> diff.extra_count,
         missing_details |-> diff.missing_details,
         extra_details |-> diff.extra_details]

-----------------------------------------------------------------------------
(* Multi column (unordered, composite key) *)

\* tuple(norm_val(df.iloc[i][c]) for c in cols)
composite_key(row, cols) == [j \in 1..Len(cols) |-> norm_val(row[cols[j]])]

\* mutant of all_blank: one blank part is enough
all_blank_Any(key) == \E j \in 1..Len(key) : key[j] = <<>>

\* all(part == "" for part in key)
all_blank(key) == \A j \in 1..Len(key) : key[j] = <<>>

\* the loop of build_index_map_multi from the i-th row on
RECURSIVE build_index_map_multi_from(_, _, _, _, _)
build_index_map_multi_from(df, cols, i, keys_nb, idx_map) ==
    IF i > Len(df)
    THEN [keys_nb |-> keys_nb, idx_map |-> idx_map]
    ELSE LET excel_row == (i - 1) + 2
             key == composite_key(df[i], cols)
         IN  IF all_blank(key)
             THEN build_index_map_multi_from(df, cols, i + 1, keys_nb, idx_map)
             ELSE build_index_map_multi_from(df, cols, i + 1, Append(keys_nb, key),
                      SetDefaultAppend(idx_map, key, excel_row))

build_index_map_multi(df, cols) ==
    build_index_map_multi_from(df, cols, 1, <<>>, <<>>)

\* {f"{prefix}.{c}": key[i] for i, c in enumerate(cols)}; a later column of
\* the same name overwrites an earlier one
row_from_key(prefix, cols, key) ==
    [f \in {prefix \o "." \o cols[j] : j \in 1..Len(cols)} |->
        LET js == {j \in 1..Len(cols) : prefix \o "." \o cols[j] = f}
        IN  key[CHOOSE j \in js : \A l \in js : l <= j]]

\* the loop over all_keys in duplicate-aware mode, from the i-th key on
RECURSIVE multi_counts_from(_, _, _, _, _, _, _, _, _)
multi_counts_from(all_keys, i, s_counts, d_counts, s_idx, d_idx, s_cols, d_cols, acc) ==
    IF i > Len(all_keys) THEN acc
    ELSE LET k == all_keys[i]
             s_c == GetCount(s_counts, k)
             d_c == GetCount(d_counts, k)
             upd == [source_count |-> s_c, d365_count |-> d_c,
                     source_lines |-> format_lines(GetLines(s_idx, k), DefaultLimit),
                     d365_lines |-> format_lines(GetLines(d_idx, k), DefaultLimit)]
             acc1 == IF s_c > d_c
                     THEN [acc EXCEPT !.missing_count = @ + (s_c - d_c),
                                      !.missing_details =
                                          Append(@, upd @@ row_from_key("source", s_cols, k))]
                     ELSE acc
             acc2 == IF d_c > s_c
                     THEN [acc1 EXCEPT !.extra_count = @ + (d_c - s_c),
                                       !.extra_details =
                                           Append(@, upd @@ row_from_key("d365", d_cols, k))]
                     ELSE acc1
         IN  multi_counts_from(all_keys, i + 1, s_counts, d_counts, s_idx, d_idx,
                               s_cols, d_cols, acc2)

\* unique-only mode of compare_values_multi_unordered
multi_unique(src_unique, d365_unique, src_idx, d365_idx, s_cols, d_cols) ==
    LET missing_keys == sorted_tuple(src_unique \ d365_unique)
        extra_keys == sorted_tuple(d365_unique \ src_unique)
    IN  [missing_count |-> Len(missing_keys),
         extra_count |-> Len(extra_keys),
         missing_details |->
             [i \in 1..Len(missing_keys) |->
                 ("source_lines" :>
                     format_lines(GetLines(src_idx, missing_keys[i]), DefaultLimit))
                 @@ row_from_key("source", s_cols, missing_keys[i])],
         extra_details |->
             [i \in 1..Len(extra_keys) |->
                 ("d365_lines" :>
                     format_lines(GetLines(d365_idx, extra_keys[i]), DefaultLimit))
                 @@ row_from_key("d365", d_cols, extra_keys[i])]]

\* duplicate-aware mode of compare_values_multi_unordered
multi_counts(src_keys, d365_keys, src_idx, d365_idx, s_cols, d_cols) ==
    LET src_counts == value_counts(src_keys)
        d365_counts == value_counts(d365_keys)
        all_keys == sorted_tuple(DOMAIN src_counts \cup DOMAIN d365_counts)
    IN  multi_counts_from(all_keys, 1, src_counts, d365_counts, src_idx,
            d365_idx, s_cols, d_cols,
            [missing_count |-> 0, extra_count |-> 0,
             missing_details |-> <<>>, extra_details |-> <<>>])

compare_values_multi_unordered(s_df, d_df, s_cols, d_cols, dupes) ==
    LET src_built == build_index_map_multi(s_df, s_cols)
        d365_built == build_index_map_multi(d_df, d_cols)
        src_keys == src_built.keys_nb
        d365_keys == d365_built.keys_nb
        src_idx == src_built.idx_map
        d365_idx == d365_built.idx_map
        src_unique == Elems(src_keys)
        d365_unique == Elems(d365_keys)
        diff == IF dupes
                THEN multi_unique(src_unique, d365_unique, src_idx, d365_idx,
                                  s_cols, d_cols)
                ELSE multi_counts(src_keys, d365_keys, src_idx, d365_idx,
                                  s_cols, d_cols)
    IN  [source_rows |-> Len(s_df),
         d365_rows |-> Len(d_df),
         source_unique |-> Cardinality(src_unique),
         d365_unique |-> Cardinality(d365_unique),
         missing_count |-> diff.missing_count,
         extra_count |-> diff.extra_count,
         missing_details |-> diff.missing_details,
         extra_details |-> diff.extra_details]

-----------------------------------------------------------------------------
(* Inputs *)

RECURSIVE StringsUpTo(_)
StringsUpTo(n) ==
    IF n = 0 THEN {<<>>}
    ELSE LET shorter == StringsUpTo(n - 1)
         IN  shorter \cup {Append(s, c) : s \in {t \in shorter : Len(t) = n - 1},
                                          c \in Alphabet}

RawValues == {None} \cup StringsUpTo(MaxLen)

Unset == <<-2>>

-----------------------------------------------------------------------------
(* The functions of the reconciliation core, each applied to its inputs *)

\* the raw cells of a source column: "", " A", "a", "b"
SrcCells == {<<>>, <<SP, 65>>, <<97>>, <<98>>}

\* the raw cells of a target column: " ", "A", "c"
D365Cells == {<<SP>>, <<65>>, <<99>>}

RECURSIVE SeriesUpTo(_, _)
SeriesUpTo(cells, n) ==
    IF n = 0 THEN {<<>>}
    ELSE LET shorter == SeriesUpTo(cells, n - 1)
         IN  shorter \cup {Append(s, c) : s \in {t \in shorter : Len(t) = n - 1},
                                          c \in cells}

\* the column names of a table
Columns == {"A", "B"}

MkRow(a, b) == [c \in Columns |-> IF c = "A" THEN a ELSE b]

\* the rows of a source table: ("", ""), ("x", ""), ("x", "Y")
SrcRows == {MkRow(<<>>, <<>>), MkRow(<<120>>, <<>>), MkRow(<<120>>, <<89>>)}

\* the rows of a target table: (" ", ""), ("X ", "y"), ("y", "x")
D365Rows == {MkRow(<<SP>>, <<>>), MkRow(<<88, SP>>, <<121>>), MkRow(<<121>>, <<120>>)}

RECURSIVE TablesUpTo(_, _)
TablesUpTo(rows, n) ==
    IF n = 0 THEN {<<>>}
    ELSE LET shorter == TablesUpTo(rows, n - 1)
         IN  shorter \cup {Append(t, r) : t \in {u \in shorter : Len(u) = n - 1},
                                          r \in rows}

\* the selections of NumCols distinct columns, in the order chosen
DistinctCols ==
    {cs \in [1..NumCols -> Columns] : \A i, j \in 1..NumCols : cs[i] = cs[j] => i = j}

InitNorm ==
    /\ pc = "norm_val.call"
    /\ raw \in RawValues
    /\ normed = Unset
    /\ a_series = <<>> /\ b_series = <<>>
    /\ src_df = <<>> /\ d365_df = <<>>
    /\ src_cols = <<>> /\ d365_cols = <<>>
    /\ remove_dupes = TRUE
    /\ index = Unset
    /\ result = Unset
    /\ session_state = <<>>
    /\ out = Unset
    /\ fl_lines = <<>> /\ fl_limit = DefaultLimit

InitSingle ==
    /\ pc = "single.call"
    /\ raw = Unset /\ normed = Unset
    /\ a_series \in SeriesUpTo(SrcCells, MaxRowsA)
    /\ b_series \in SeriesUpTo(D365Cells, MaxRowsB)
    /\ src_df = <<>> /\ d365_df = <<>>
    /\ src_cols = <<>> /\ d365_cols = <<>>
    /\ remove_dupes \in BOOLEAN
    /\ index = Unset
    /\ result = Unset
    /\ session_state = <<>>
    /\ out = Unset
    /\ fl_lines = <<>> /\ fl_limit = DefaultLimit

InitMulti ==
    /\ pc = "multi.call"
    /\ raw = Unset /\ normed = Unset
    /\ a_series = <<>> /\ b_series = <<>>
    /\ src_df \in TablesUpTo(SrcRows, MaxRowsM)
    /\ d365_df \in TablesUpTo(D365Rows, MaxRowsM)
    /\ src_cols \in DistinctCols
    /\ d365_cols \in DistinctCols
    /\ remove_dupes \in BOOLEAN
    /\ index = Unset
    /\ result = Unset
    /\ session_state = <<>>
    /\ out = Unset
    /\ fl_lines = <<>> /\ fl_limit = DefaultLimit

\* the short lists of row numbers, in any order and with repeats
ShortLines == SeriesUpTo(2..(MaxLines + 1), MaxLines)

\* the lists of the rows 2, 3, ... about as long as the default limit
LongLines ==
    {[i \in 1..n |-> i + 1] : n \in (DefaultLimit - 1)..(DefaultLimit + MaxOver)}

\* the limits: the small ones and the default
Limits == (0..MaxLines) \cup {DefaultLimit}

InitFormat ==
    /\ pc = "format_lines.call"
    /\ raw = Unset /\ normed = Unset
    /\ a_series = <<>> /\ b_series = <<>>
    /\ src_df = <<>> /\ d365_df = <<>>
    /\ src_cols = <<>> /\ d365_cols = <<>>
    /\ remove_dupes = TRUE
    /\ index = Unset
    /\ result = Unset
    /\ session_state = <<>>
    /\ out = Unset
    /\ fl_lines \in ShortLines \cup LongLines
    /\ fl_limit \in Limits

Init == InitNorm \/ InitSingle \/ InitMulti \/ InitFormat

NormVal ==
    /\ pc = "norm_val.call"
    /\ normed' = norm_val(raw)
    /\ pc' = "norm_val.return"
    /\ UNCHANGED <<raw, a_series, b_series, src_df, d365_df, src_cols, d365_cols,
                   remove_dupes, index, result, session_state, out,
                   fl_lines, fl_limit>>

BuildIndexSingle ==
    /\ pc = "single.call"
    /\ index' = [a |-> build_index_map_single(a_series),
                 b |-> build_index_map_single(b_series)]
    /\ pc' = "index_single.return"
    /\ UNCHANGED <<raw, normed, a_series, b_series, src_df, d365_df, src_cols,
                   d365_cols, remove_dupes, result, session_state, out,
                   fl_lines, fl_limit>>

CompareSingle ==
    /\ pc = "single.call"
    /\ result' = compare_values_single(a_series, b_series, remove_dupes)
    /\ pc' = "single.return"
    /\ UNCHANGED <<raw, normed, a_series, b_series, src_df, d365_df, src_cols,
                   d365_cols, remove_dupes, index, session_state, out,
                   fl_lines, fl_limit>>

BuildIndexMulti ==
    /\ pc = "multi.call"
    /\ index' = [a |-> build_index_map_multi(src_df, src_cols),
                 b |-> build_index_map_multi(d365_df, d365_cols)]
    /\ pc' = "index_multi.return"
    /\ UNCHANGED <<raw, normed, a_series, b_series, src_df, d365_df, src_cols,
                   d365_cols, remove_dupes, result, session_state, out,
                   fl_lines, fl_limit>>

CompareMulti ==
    /\ pc = "multi.call"
    /\ result' = compare_values_multi_unordered(src_df, d365_df, src_cols, d365_cols,
                                                remove_dupes)
    /\ pc' = "multi.return"
    /\ UNCHANGED <<raw, normed, a_series, b_series, src_df, d365_df, src_cols,
                   d365_cols, remove_dupes, index, session_state, out,
                   fl_lines, fl_limit>>

FormatLines ==
    /\ pc = "format_lines.call"
    /\ result' = format_lines(fl_lines, fl_limit)
    /\ pc' = "format_lines.return"
    /\ UNCHANGED <<raw, normed, a_series, b_series, src_df, d365_df, src_cols,
                   d365_cols, remove_dupes, index, session_state, out,
                   fl_lines, fl_limit>>

Next ==
    \/ FormatLines
    \/ NormVal
    \/ BuildIndexSingle
    \/ CompareSingle
    \/ BuildIndexMulti
    \/ CompareMulti

Spec == Init /\ [][Next]_vars

-----------------------------------------------------------------------------
(* The Streamlit script: every interaction runs it from the top, with the  *)
(* session state kept between runs                                         *)

\* st.session_state[k] = v
SetKey(ss, k, v) == [j \in DOMAIN ss \cup {k} |-> IF j = k THEN v ELSE ss[j]]

\* st.session_state.pop(k, None) for every k of keys
PopKeys(ss, keys) == [j \in DOMAIN ss \ keys |-> ss[j]]

\* st.session_state.get("loaded")
Loaded(ss) == "loaded" \in DOMAIN ss /\ ss["loaded"]

\* _to_str of stringify_df
to_str(x) == IF x = None THEN <<>> ELSE x

\* df.applymap(_to_str)
stringify_df(df) == [i \in 1..Len(df) |-> [c \in DOMAIN df[i] |-> to_str(df[i][c])]]

\* df[col]
Column(df, col) == [i \in 1..Len(df) |-> df[i][col]]

\* ", ".join(cols)
RECURSIVE JoinNames(_)
JoinNames(cols) ==
    IF cols = <<>> THEN ""
    ELSE IF Len(cols) = 1 THEN cols[1]
    ELSE cols[1] \o ", " \o JoinNames(Tail(cols))

\* mutant of duplicate_selection: only the source columns are checked
duplicate_selection_SourceOnly(s_cols, d_cols) ==
    IF Cardinality(Elems(s_cols)) # Len(s_cols)
    THEN "Source columns contain duplicates. Please pick distinct Source columns."
    ELSE ""

\* the two checks of the "Compare Selected Columns" button: the message of
\* the first that fails, "" when both pass
duplicate_selection(s_cols, d_cols) ==
    IF Cardinality(Elems(s_cols)) # Len(s_cols)
    THEN "Source columns contain duplicates. Please pick distinct Source columns."
    ELSE IF Cardinality(Elems(d_cols)) # Len(d_cols)
    THEN "D365 columns contain duplicates. Please pick distinct D365 columns."
    ELSE ""

\* a run that rendered no comparison: kind is "info", "error" or "select"
NoComparison(kind, message) ==
    [kind |-> kind, message |-> message, calls |-> <<>>, results |-> Unset,
     summary |-> Unset, export |-> Unset]

\* make_excel_download: the sheets of the workbook, by name
make_excel_download(summary, missing_details, extra_details, filename_prefix) ==
    [Summary |-> summary,
     Missing_in_D365 |-> missing_details,
     Extra_in_D365 |-> extra_details,
     filename_prefix |-> filename_prefix]

\* summary_df of the single-column page
single_summary(results, src_col, d365_col, dupes) ==
    [source_rows |-> results.total_rows_a,
     d365_rows |-> results.total_rows_b,
     source_unique |-> results.unique_a,
     d365_unique |-> results.unique_b,
     missing_in_d365 |-> results.missing_count,
     extra_in_d365 |-> results.extra_count,
     remove_duplicates |-> dupes,
     source_column |-> src_col,
     d365_column |-> d365_col]

\* summary_df of the multi-column page
multi_summary(res, s_cols, d_cols, dupes) ==
    [source_rows |-> res.source_rows,
     d365_rows |-> res.d365_rows,
     source_unique_keys |-> res.source_unique,
     d365_unique_keys |-> res.d365_unique,
     missing_in_d365 |-> res.missing_count,
     extra_in_d365 |-> res.extra_count,
     remove_duplicates |-> dupes,
     source_columns |-> JoinNames(s_cols),
     d365_columns |-> JoinNames(d_cols)]

\* what a page renders of a comparison: the summary, the two lists and the
\* workbook offered for download
rendered(kind, called, results, summary, filename_prefix) ==
    [kind |-> kind, message |-> "",
     calls |-> <<called>>,
     results |-> results,
     summary |-> summary,
     export |-> make_excel_download(summary, results.missing_details,
                                    results.extra_details, filename_prefix)]

\* the "Single Column Compare" page
single_page(s_df, d_df, src_col, d365_col, dupes) ==
    rendered("single", "compare_values_single",
             compare_values_single(Column(s_df, src_col), Column(d_df, d365_col), dupes),
             single_summary(
                 compare_values_single(Column(s_df, src_col), Column(d_df, d365_col),
                                       dupes),
                 src_col, d365_col, dupes),
             "single_column_differences")

\* the "Multi-Column Compare" page; clicked: the "Compare Selected Columns"
\* button was pressed
multi_page(s_df, d_df, s_cols, d_cols, dupes, clicked) ==
    IF ~clicked THEN NoComparison("select", "")
    ELSE IF duplicate_selection(s_cols, d_cols) # ""
    THEN NoComparison("error", duplicate_selection(s_cols, d_cols))
    ELSE rendered("multi", "compare_values_multi_unordered",
                  compare_values_multi_unordered(s_df, d_df, s_cols, d_cols, dupes),
                  multi_summary(
                      compare_values_multi_unordered(s_df, d_df, s_cols, d_cols, dupes),
                      s_cols, d_cols, dupes),
                  "multi_column_differences")

\* the script below the "Load Data" block
page_body(ss, page, s_cols, d_cols, dupes, clicked) ==
    IF ~Loaded(ss)
    THEN NoComparison("info", "Upload a file, paste SQL, and click **Load Data**.")
    ELSE IF page = "Single Column Compare"
    THEN single_page(ss["src_df"], ss["d365_df"], s_cols[1], d_cols[1], dupes)
    ELSE multi_page(ss["src_df"], ss["d365_df"], s_cols, d_cols, dupes, clicked)

Pages == {"Single Column Compare", "Multi-Column Compare (Unordered, Max 4)"}

\* what the widgets hold when the script runs with the comparison button not
\* pressed: on the single-column page one column per side; on the
\* multi-column page the selectboxes feed nothing until the button is pressed
PageInputs ==
    [page : {"Single Column Compare"}, s_cols : [1..1 -> Columns],
     d_cols : [1..1 -> Columns], dupes : BOOLEAN]
    \cup [page : {"Multi-Column Compare (Unordered, Max 4)"}, s_cols : {<<>>},
          d_cols : {<<>>}, dupes : BOOLEAN]

\* a run that stops before the page reads its widgets
StoppedInputs ==
    [page |-> "Single Column Compare", s_cols |-> <<>>, d_cols |-> <<>>, dupes |-> TRUE]

\* the tables read_any can return: rows ("x", "Y")
FileTables == TablesUpTo({MkRow(<<120>>, <<89>>)}, MaxRowsApp)

\* the tables pd.read_sql can return: rows (NULL, "x") and ("X ", "y")
QueryTables ==
    TablesUpTo({MkRow(None, <<120>>), MkRow(<<88, SP>>, <<121>>)}, MaxRowsApp)

\* how far a click on "Load Data" gets
LoadOutcomes == {"no_file", "no_query", "no_connection_fields", "read_failed",
                 "sql_failed", "loaded"}

\* mutant of load_data: the flag is set as soon as the source file is read
load_data_LoadedEarly(ss, outcome, file_table, query_table) ==
    IF outcome \in {"no_file", "no_query", "no_connection_fields", "read_failed"}
    THEN ss
    ELSE IF outcome = "sql_failed"
    THEN SetKey(SetKey(ss, "src_df", file_table), "loaded", TRUE)
    ELSE SetKey(SetKey(SetKey(ss, "src_df", file_table),
                       "d365_df", stringify_df(query_table)),
                "loaded", TRUE)

\* the session state after the "Load Data" block
load_data(ss, outcome, file_table, query_table) ==
    IF outcome \in {"no_file", "no_query", "no_connection_fields", "read_failed"}
    THEN ss
    ELSE IF outcome = "sql_failed"
    THEN SetKey(ss, "src_df", file_table)
    ELSE SetKey(SetKey(SetKey(ss, "src_df", file_table),
                       "d365_df", stringify_df(query_table)),
                "loaded", TRUE)

\* the message of st.error when "Load Data" stops the run
load_error(outcome) ==
    CASE outcome = "no_file" -> "Please upload a source file."
      [] outcome = "no_query" -> "Please paste a D365 SQL query."
      [] outcome = "no_connection_fields" -> "Please fill in all SQL connection fields."
      [] outcome = "read_failed" -> "Failed to read source file"
      [] outcome = "sql_failed" -> "SQL error"

\* the variables of a run of the script, once session_state' and out' are set
RunEnds(s_cols, d_cols, dupes) ==
    /\ result' = out'.results
    /\ src_df' = IF Loaded(session_state') /\ out'.kind # "error"
                 THEN session_state'["src_df"] ELSE Unset
    /\ d365_df' = IF Loaded(session_state') /\ out'.kind # "error"
                  THEN session_state'["d365_df"] ELSE Unset
    /\ a_series' = IF out'.kind = "single"
                   THEN Column(session_state'["src_df"], s_cols[1]) ELSE <<>>
    /\ b_series' = IF out'.kind = "single"
                   THEN Column(session_state'["d365_df"], d_cols[1]) ELSE <<>>
    /\ src_cols' = s_cols
    /\ d365_cols' = d_cols
    /\ remove_dupes' = dupes
    /\ UNCHANGED <<raw, normed, index, fl_lines, fl_limit>>

InitApp ==
    /\ pc = "app.start"
    /\ raw = Unset /\ normed = Unset
    /\ a_series = <<>> /\ b_series = <<>>
    /\ src_df = Unset /\ d365_df = Unset
    /\ src_cols = <<>> /\ d365_cols = <<>>
    /\ remove_dupes = TRUE
    /\ index = Unset
    /\ result = Unset
    /\ session_state = <<>>
    /\ out = NoComparison("info", "Upload a file, paste SQL, and click **Load Data**.")
    /\ fl_lines = <<>> /\ fl_limit = DefaultLimit

\* a click on "Reset App": the keys are popped and st.rerun() starts the
\* script again with no button pressed
ResetApp ==
    \E inp \in PageInputs :
        /\ pc' = "app.reset"
        /\ session_state' = PopKeys(session_state, {"src_df", "d365_df", "loaded"})
        /\ out' = page_body(session_state', inp.page, inp.s_cols, inp.d_cols,
                            inp.dupes, FALSE)
        /\ RunEnds(inp.s_cols, inp.d_cols, inp.dupes)

\* a click on "Load Data": st.stop() ends the run at the first failure,
\* otherwise the script goes on to the page
LoadData ==
    \E outcome \in LoadOutcomes :
        \E inp \in IF outcome = "loaded" THEN PageInputs ELSE {StoppedInputs},
           file_table \in IF outcome \in {"sql_failed", "loaded"} THEN FileTables ELSE {<<>>},
           query_table \in IF outcome = "loaded" THEN QueryTables ELSE {<<>>} :
            /\ pc' = "app.load_data"
            /\ session_state' = load_data(session_state, outcome, file_table, query_table)
            /\ out' = IF outcome = "loaded"
                      THEN page_body(session_state', inp.page, inp.s_cols, inp.d_cols,
                                     inp.dupes, FALSE)
                      ELSE NoComparison("error", load_error(outcome))
            /\ RunEnds(inp.s_cols, inp.d_cols, inp.dupes)

\* a widget was changed: the script runs with no button pressed
Rerun ==
    \E inp \in PageInputs :
        /\ pc' = "app.rerun"
        /\ session_state' = session_state
        /\ out' = page_body(session_state, inp.page, inp.s_cols, inp.d_cols,
                            inp.dupes, FALSE)
        /\ RunEnds(inp.s_cols, inp.d_cols, inp.dupes)

\* a click on "Compare Selected Columns", which the multi-column page shows
\* once data is loaded
CompareSelected ==
    /\ Loaded(session_state)
    /\ \E dupes \in BOOLEAN :
        \E s_cols \in [1..NumCols -> Columns], d_cols \in [1..NumCols -> Columns] :
            /\ pc' = "app.compare_selected"
            /\ session_state' = session_state
            /\ out' = page_body(session_state, "Multi-Column Compare (Unordered, Max 4)",
                                s_cols, d_cols, dupes, TRUE)
            /\ RunEnds(s_cols, d_cols, dupes)

NextApp ==
    \/ ResetApp
    \/ LoadData
    \/ Rerun
    \/ CompareSelected

SpecApp == InitApp /\ [][NextApp]_vars

-----------------------------------------------------------------------------
(* The two file scripts (src/customers_wholesale.py, src/handling_type.py). *)
(* A table read by read_any is its header row (columns) and its data rows,  *)
(* each row a list of cells in the order of the header row.                 *)

\* str.replace(" ", "")
RECURSIVE RemoveSpaces(_)
RemoveSpaces(s) ==
    IF s = <<>> THEN <<>>
    ELSE IF Head(s) = SP THEN RemoveSpaces(Tail(s))
    ELSE <<Head(s)>> \o RemoveSpaces(Tail(s))

norm_col(c) == RemoveSpaces(Lower(Strip(c)))

\* repr("" if x is None else x) of a string without quotes or escapes
show(x) == <<39>> \o (IF x = None THEN <<>> ELSE x) \o <<39>>

\* [norm_col(c) for c in df.columns]
norm_columns(df) == [j \in 1..Len(df.columns) |-> norm_col(df.columns[j])]

\* df[name], once the header row is normalized
FileColumn(df, name) ==
    LET j == CHOOSE l \in 1..Len(df.columns) : norm_col(df.columns[l]) = name
    IN  [i \in 1..Len(df.rows) |-> df.rows[i][j]]

\* how a call of compare_files ends: the exception raised ("" for none) with
\* its message, the steps taken on the cell values, and what was printed
Ended(kind, message, steps, printed) ==
    [raised |-> kind, message |-> message, steps |-> steps, printed |-> printed]

\* [show(v) for v in values]
ShowAll(values) == [i \in 1..Len(values) |-> show(values[i])]

\* customers_wholesale.py, from the two sets on: the differences and the report
cw_report(a_set, b_set, a_col, b_col) ==
    IF sorted_str(a_set \ b_set) = <<>> /\ sorted_str(b_set \ a_set) = <<>>
    THEN [verdict |-> "PASS!", source |-> Cardinality(a_set),
          d365 |-> Cardinality(b_set)]
    ELSE [verdict |-> "PASS WITH ERRORS", a_column |-> a_col, b_column |-> b_col,
          source |-> Cardinality(a_set), d365 |-> Cardinality(b_set),
          missing_in_d365 |-> ShowAll(sorted_str(a_set \ b_set)),
          missing_in_source |-> ShowAll(sorted_str(b_set \ a_set))]

\* compare_files of customers_wholesale.py, from the tables read_any returned
compare_files_customers_wholesale(a, b, a_col, b_col) ==
    IF norm_col(a_col) \notin Elems(norm_columns(a))
    THEN Ended("KeyError",
               [label |-> "a_label", column |-> show(a_col),
                available |-> norm_columns(a)], <<>>, Unset)
    ELSE IF norm_col(b_col) \notin Elems(norm_columns(b))
    THEN Ended("KeyError",
               [label |-> "b_label", column |-> show(b_col),
                available |-> norm_columns(b)], <<>>, Unset)
    ELSE Ended("", Unset, <<"extract_a", "extract_b", "compare">>,
               cw_report(Elems(FileColumn(a, norm_col(a_col))),
                         Elems(FileColumn(b, norm_col(b_col))), a_col, b_col))

\* re.sub(r"[^a-z0-9]", "", s) of a lower-cased string
RECURSIVE KeepAlnum(_)
KeepAlnum(s) ==
    IF s = <<>> THEN <<>>
    ELSE IF Head(s) \in (48..57) \cup (97..122)
    THEN <<Head(s)>> \o KeepAlnum(Tail(s))
    ELSE KeepAlnum(Tail(s))

match_key(x) == KeepAlnum(Lower(IF x = None THEN <<>> ELSE x))

\* the labels of key that are no column of the table, each once, in order
RECURSIVE not_found_from(_, _, _, _)
not_found_from(columns, key, i, acc) ==
    IF i > Len(key) THEN acc
    ELSE not_found_from(columns, key, i + 1,
             IF key[i] \in Elems(columns) \/ key[i] \in Elems(acc) THEN acc
             ELSE Append(acc, key[i]))

\* the KeyError of df[key] for a list of labels of which some are no column:
\* "None of [Index(key)] are in the [columns]" when none is, otherwise
\* "<the missing labels> not in index"
getitem_error(columns, key) ==
    IF \A i \in 1..Len(key) : key[i] \notin Elems(columns)
    THEN [text |-> "None of [] are in the [columns]", key |-> key]
    ELSE [text |-> "not in index", not_found |-> not_found_from(columns, key, 1, <<>>)]

\* bmap.index[bmap.index.duplicated()].unique(): the match keys met again, in
\* the order of their first repetition
RECURSIVE dup_keys_from(_, _, _)
dup_keys_from(b_match, i, acc) ==
    IF i > Len(b_match) THEN acc
    ELSE dup_keys_from(b_match, i + 1,
             IF b_match[i] \in Elems(SubSeq(b_match, 1, i - 1))
                /\ b_match[i] \notin Elems(acc)
             THEN Append(acc, b_match[i]) ELSE acc)

\* the differences of the compare columns of one pair of rows, from the j-th on
RECURSIVE col_diffs_from(_, _, _, _, _, _, _)
col_diffs_from(a, b, cols_n, i, p, j, diffs) ==
    IF j > Len(cols_n) THEN diffs
    ELSE LET aval == FileColumn(a, cols_n[j])[i]
             bval == FileColumn(b, cols_n[j])[p]
         IN  col_diffs_from(a, b, cols_n, i, p, j + 1,
                 IF aval # bval
                 THEN Append(diffs, [field |-> cols_n[j], key_field |-> FALSE,
                                     a |-> show(aval), b |-> show(bval)])
                 ELSE diffs)

\* the differences of the a-row i and the b-row p
row_diffs(a, b, a_key_n, b_key_n, cols_n, i, p) ==
    col_diffs_from(a, b, cols_n, i, p, 1,
        IF FileColumn(a, a_key_n)[i] # FileColumn(b, b_key_n)[p]
        THEN <<[field |-> a_key_n, key_field |-> TRUE,
                a |-> show(FileColumn(a, a_key_n)[i]),
                b |-> show(FileColumn(b, b_key_n)[p])]>>
        ELSE <<>>)

\* the end of the loop body: the row passes or joins error_rows
ht_row(acc, a_key_val, diffs) ==
    IF diffs # <<>>
    THEN [acc EXCEPT !.error_rows = Append(@, [key_val |-> show(a_key_val),
                                               diffs |-> diffs])]
    ELSE [acc EXCEPT !.pass_ct = @ + 1]

\* the rows of b whose match key is mk
MatchRows(b_match, mk) == {p \in 1..Len(b_match) : b_match[p] = mk}

\* the loop over a.iterrows() from the i-th row on; a match key that b holds
\* more than once makes bmap.loc return a Series, whose comparison has no
\* truth value: ValueError
RECURSIVE rows_from(_, _, _, _, _, _, _, _, _)
rows_from(a, b, a_key_n, b_key_n, cols_n, a_match, b_match, i, acc) ==
    IF i > Len(a_match) THEN acc
    ELSE IF a_match[i] = <<>> \/ MatchRows(b_match, a_match[i]) = {}
    THEN rows_from(a, b, a_key_n, b_key_n, cols_n, a_match, b_match, i + 1,
                   [acc EXCEPT !.fail_ct = @ + 1])
    ELSE IF Cardinality(MatchRows(b_match, a_match[i])) > 1
    THEN [acc EXCEPT !.raised = "ValueError"]
    ELSE rows_from(a, b, a_key_n, b_key_n, cols_n, a_match, b_match, i + 1,
                   ht_row(acc, FileColumn(a, a_key_n)[i],
                          row_diffs(a, b, a_key_n, b_key_n, cols_n, i,
                                    CHOOSE p \in MatchRows(b_match, a_match[i]) : TRUE)))

\* df[key_n].map(match_key)
MatchKeys(df, key_n) ==
    [i \in 1..Len(df.rows) |-> match_key(FileColumn(df, key_n)[i])]

\* handling_type.py, the report: the duplicate keys are printed before the
\* loop, the verdict and the counts after it
ht_report(dup_keys, acc) ==
    IF acc.raised # ""
    THEN Ended(acc.raised, [text |-> "The truth value of a Series is ambiguous"],
               <<"extract_a", "extract_b", "compare">>,
               [dup_keys |-> ShowAll(dup_keys)])
    ELSE Ended("", Unset, <<"extract_a", "extract_b", "compare">>,
               [dup_keys |-> ShowAll(dup_keys),
                verdict |-> IF acc.error_rows # <<>> THEN "PASS_WITH_ERRORS" ELSE "PASS",
                count |-> IF acc.error_rows # <<>> THEN Len(acc.error_rows)
                          ELSE acc.pass_ct,
                records |-> acc.error_rows,
                fail |-> acc.fail_ct])

\* handling_type.py from the match keys on
ht_compare(a, b, a_key_n, b_key_n, cols_n) ==
    ht_report(dup_keys_from(MatchKeys(b, b_key_n), 1, <<>>),
              rows_from(a, b, a_key_n, b_key_n, cols_n, MatchKeys(a, a_key_n),
                        MatchKeys(b, b_key_n), 1,
                        [pass_ct |-> 0, fail_ct |-> 0, error_rows |-> <<>>,
                         raised |-> ""]))

\* [norm_col(c) for c in compare_cols]
norm_all(compare_cols) == [j \in 1..Len(compare_cols) |-> norm_col(compare_cols[j])]

\* compare_files of handling_type.py, from the tables read_any returned: the
\* columns are taken with a[[a_key_n] + cols_n] and b[[b_key_n] + cols_n],
\* a first, with no check of the names before
compare_files_handling_type(a, b, a_key, b_key, compare_cols) ==
    IF ~(Elems(<<norm_col(a_key)>> \o norm_all(compare_cols)) \subseteq Elems(norm_columns(a)))
    THEN Ended("KeyError",
               getitem_error(norm_columns(a), <<norm_col(a_key)>> \o norm_all(compare_cols)),
               <<>>, Unset)
    ELSE IF ~(Elems(<<norm_col(b_key)>> \o norm_all(compare_cols)) \subseteq Elems(norm_columns(b)))
    THEN Ended("KeyError",
               getitem_error(norm_columns(b), <<norm_col(b_key)>> \o norm_all(compare_cols)),
               <<"extract_a">>, Unset)
    ELSE ht_compare(a, b, norm_col(a_key), norm_col(b_key), norm_all(compare_cols))

\* the rows of a table under a header row of one or two columns
FileRows(columns, key_cells, cells) ==
    IF Len(columns) = 1 THEN {<<k>> : k \in key_cells}
    ELSE {<<k, c>> : k \in key_cells, c \in cells}

\* the tables of up to n rows under the header rows given
FilesUpTo(headers, key_cells, cells, n) ==
    UNION {{[columns |-> h, rows |-> r] :
               r \in TablesUpTo(FileRows(h, key_cells, cells), n)} : h \in headers}

\* the source files: header rows (" K", "D") and ("K"), key cells "H-1" and
\* "", other cells "p"
SourceFiles ==
    FilesUpTo({<<<<SP, 75>>, <<68>>>>, <<<<75>>>>}, {<<72, 45, 49>>, <<>>}, {<<112>>},
              MaxRowsFA)

\* the target files: header rows ("k", "D X") and ("K", "d"), key cells "h1"
\* and "H-1", other cells "p" and "q"
D365Files ==
    FilesUpTo({<<<<107>>, <<68, SP, 88>>>>, <<<<75>>, <<100>>>>},
              {<<104, 49>>, <<72, 45, 49>>}, {<<112>>, <<113>>}, MaxRowsFB)

\* the column names a call asks for: the key of the source ("K", "X"), the
\* key of the target ("k ", "X"), the compare columns ([], ["D"], ["D X"])
SourceKeys == {<<75>>, <<88>>}
D365Keys == {<<107, SP>>, <<88>>}
CompareCols == {<<>>, <<<<68>>>>, <<<<68, SP, 88>>>>}

InitFiles ==
    /\ pc \in {"customers_wholesale.call", "handling_type.call"}
    /\ raw = Unset /\ normed = Unset
    /\ a_series = <<>> /\ b_series = <<>>
    /\ src_df \in SourceFiles
    /\ d365_df \in D365Files
    /\ \E a_key \in SourceKeys, b_key \in D365Keys :
        \E cols \in IF pc = "handling_type.call" THEN CompareCols ELSE {<<>>} :
            /\ src_cols = <<a_key>> \o cols
            /\ d365_cols = <<b_key>> \o cols
    /\ remove_dupes = TRUE
    /\ index = Unset
    /\ result = Unset
    /\ session_state = <<>>
    /\ out = Unset
    /\ fl_lines = <<>> /\ fl_limit = DefaultLimit

\* python customers_wholesale.py
CustomersWholesale ==
    /\ pc = "customers_wholesale.call"
    /\ result' = compare_files_customers_wholesale(src_df, d365_df, src_cols[1],
                                                   d365_cols[1])
    /\ out' = result'.printed
    /\ pc' = IF result'.raised # "" THEN "customers_wholesale.raise"
             ELSE "customers_wholesale.return"
    /\ UNCHANGED <<raw, normed, a_series, b_series, src_df, d365_df, src_cols,
                   d365_cols, remove_dupes, index, session_state, fl_lines, fl_limit>>

\* python handling_type.py
HandlingType ==
    /\ pc = "handling_type.call"
    /\ result' = compare_files_handling_type(src_df, d365_df, src_cols[1],
                                             d365_cols[1], Tail(src_cols))
    /\ out' = result'.printed
    /\ pc' = IF result'.raised # "" THEN "handling_type.raise"
             ELSE "handling_type.return"
    /\ UNCHANGED <<raw, normed, a_series, b_series, src_df, d365_df, src_cols,
                   d365_cols, remove_dupes, index, session_state, fl_lines, fl_limit>>

NextFiles ==
    \/ CustomersWholesale
    \/ HandlingType

SpecFiles == InitFiles /\ [][NextFiles]_vars

-----------------------------------------------------------------------------
(* What the properties are stated with: the keys of a table read off its   *)
(* rows, without the index                                                 *)

IsSingle == pc \in {"single.return", "index_single.return"}
Compared == pc \in {"single.return", "multi.return"}
Indexed == pc \in {"index_single.return", "index_multi.return"}

\* the normalized parts of a row under a column selection, position by position
PartsOf(row, cols) == [j \in 1..Len(cols) |-> norm_val(row[cols[j]])]

\* the key of the i-th data row of a side ("a": source, "b": target)
KeyAt(side, i) ==
    IF IsSingle
    THEN norm_val(IF side = "a" THEN a_series[i] ELSE b_series[i])
    ELSE IF side = "a" THEN PartsOf(src_df[i], src_cols)
         ELSE PartsOf(d365_df[i], d365_cols)

NumRows(side) ==
    IF IsSingle
    THEN Len(IF side = "a" THEN a_series ELSE b_series)
    ELSE Len(IF side = "a" THEN src_df ELSE d365_df)

\* a key that is never compared: the empty string, or a tuple of empty strings
IsBlank(k) == IF IsSingle THEN k = <<>> ELSE \A j \in 1..Len(k) : k[j] = <<>>

\* the 1-based positions of the data rows of a side whose key is k
RowsOf(side, k) == {i \in 1..NumRows(side) : KeyAt(side, i) = k}

NonBlankRows(side) == {i \in 1..NumRows(side) : ~IsBlank(KeyAt(side, i))}

KeySet(side) == {KeyAt(side, i) : i \in NonBlankRows(side)}

CountOf(side, k) == Cardinality(RowsOf(side, k))

KeyLess(k, l) == IF IsSingle THEN StrLess(k, l) ELSE TupleLess(k, l)

Ascending(keys) == \A i \in 1..(Len(keys) - 1) : KeyLess(keys[i], keys[i + 1])

\* the key a record of a missing or extra list stands for
KeyOfEntry(entry, prefix, cols) ==
    IF IsSingle THEN entry["value"]
    ELSE [j \in 1..Len(cols) |-> entry[prefix \o "." \o cols[j]]]

MissingKeys ==
    [i \in 1..Len(result.missing_details) |->
        KeyOfEntry(result.missing_details[i], "source", src_cols)]

ExtraKeys ==
    [i \in 1..Len(result.extra_details) |->
        KeyOfEntry(result.extra_details[i], "d365", d365_cols)]

Max(m, n) == IF m > n THEN m ELSE n

RECURSIVE SumDeficit(_)
SumDeficit(S) ==
    IF S = {} THEN 0
    ELSE LET k == CHOOSE x \in S : TRUE
         IN  Max(CountOf("a", k) - CountOf("b", k), 0) + SumDeficit(S \ {k})

RECURSIVE SumSurplus(_)
SumSurplus(S) ==
    IF S = {} THEN 0
    ELSE LET k == CHOOSE x \in S : TRUE
         IN  Max(CountOf("b", k) - CountOf("a", k), 0) + SumSurplus(S \ {k})

\* the index of a side as the builder returned it
IndexOf(side) ==
    IF IsSingle THEN (IF side = "a" THEN index.a.index_map ELSE index.b.index_map)
    ELSE (IF side = "a" THEN index.a.idx_map ELSE index.b.idx_map)

-----------------------------------------------------------------------------
(* Properties *)

\* C1: in unique-only mode, for the single-column and the multi-column
\* comparison alike, the missing list holds exactly the keys of the source
\* that the target lacks and the extra list exactly the keys of the target
\* that the source lacks, each once and in ascending order, and missing_count
\* and extra_count are the lengths of the lists, however often a key occurs.
C1_UniqueModeIsSetDifference ==
    (Compared /\ remove_dupes) =>
        /\ Elems(MissingKeys) = KeySet("a") \ KeySet("b")
        /\ Elems(ExtraKeys) = KeySet("b") \ KeySet("a")
        /\ Ascending(MissingKeys)
        /\ Ascending(ExtraKeys)
        /\ result.missing_count = Len(result.missing_details)
        /\ result.extra_count = Len(result.extra_details)

\* source ["b", "a", " A"] against target ["c"]: "a" occurs twice and is
\* listed once, before "b"
C1_Witness ==
    /\ pc = "single.return" /\ remove_dupes
    /\ a_series = <<<<98>>, <<97>>, <<SP, 65>>>>
    /\ b_series = <<<<99>>>>
    /\ MissingKeys = <<<<97>>, <<98>>>>
    /\ ExtraKeys = <<<<99>>>>
    /\ result.missing_count = 2

\* C2: in duplicate-aware mode every key of the union with more occurrences
\* at the source has exactly one missing record carrying both counts and no
\* extra record, every key with more occurrences at the target has exactly
\* one extra record carrying both counts and no missing record, a key with
\* equal counts has neither, and both lists are in ascending key order.
C2_DuplicateAwareEntries ==
    (Compared /\ ~remove_dupes) =>
        /\ \A k \in KeySet("a") \cup KeySet("b") :
              LET ca == CountOf("a", k)
                  cb == CountOf("b", k)
                  mi == {i \in 1..Len(MissingKeys) : MissingKeys[i] = k}
                  ei == {i \in 1..Len(ExtraKeys) : ExtraKeys[i] = k}
              IN  /\ ca > cb =>
                        /\ Cardinality(mi) = 1 /\ ei = {}
                        /\ \A i \in mi :
                              /\ result.missing_details[i]["source_count"] = ca
                              /\ result.missing_details[i]["d365_count"] = cb
                  /\ cb > ca =>
                        /\ Cardinality(ei) = 1 /\ mi = {}
                        /\ \A i \in ei :
                              /\ result.extra_details[i]["source_count"] = ca
                              /\ result.extra_details[i]["d365_count"] = cb
                  /\ ca = cb => (mi = {} /\ ei = {})
        /\ Elems(MissingKeys) \cup Elems(ExtraKeys) \subseteq KeySet("a") \cup KeySet("b")
        /\ Ascending(MissingKeys)
        /\ Ascending(ExtraKeys)

\* source ["a", " A", "b"] against target ["A", "c"]: "a" 2 against 1 and
\* "b" 1 against 0 are missing, "c" 0 against 1 is extra
C2_Witness ==
    /\ pc = "single.return" /\ ~remove_dupes
    /\ a_series = <<<<97>>, <<SP, 65>>, <<98>>>>
    /\ b_series = <<<<65>>, <<99>>>>
    /\ MissingKeys = <<<<97>>, <<98>>>>
    /\ ExtraKeys = <<<<99>>>>
    /\ result.missing_details[1].source_count = 2
    /\ result.missing_details[1].d365_count = 1

\* C3: in duplicate-aware mode missing_count is the sum over the keys of
\* max(ca - cb, 0) and extra_count the sum of max(cb - ca, 0), so that
\* missing_count - extra_count is the number of non-blank source rows minus
\* the number of non-blank target rows.
C3_DuplicateAwareCounts ==
    (Compared /\ ~remove_dupes) =>
        /\ result.missing_count = SumDeficit(KeySet("a") \cup KeySet("b"))
        /\ result.extra_count = SumSurplus(KeySet("a") \cup KeySet("b"))
        /\ result.missing_count - result.extra_count
               = Cardinality(NonBlankRows("a")) - Cardinality(NonBlankRows("b"))

\* source ["a", "a", " A"] against target ["A", "c"]: "a" 3 against 1, so
\* missing_count is 2 where one key is listed
C3_Witness ==
    /\ pc = "single.return" /\ ~remove_dupes
    /\ a_series = <<<<97>>, <<97>>, <<SP, 65>>>>
    /\ b_series = <<<<65>>, <<99>>>>
    /\ result.missing_count = 2
    /\ Len(result.missing_details) = 1
    /\ result.extra_count = 1

\* C4: a cell that normalizes to the empty string is never a key: not in the
\* index of either side, not among the unique keys counted, not in the
\* missing or extra list of either mode; a column of blank cells only has an
\* empty index and a unique count of 0 while total_rows counts its rows.
C4_BlankIsNeverAKey ==
    /\ pc = "index_single.return" =>
          \A side \in {"a", "b"} :
              /\ <<>> \notin DOMAIN IndexOf(side)
              /\ NonBlankRows(side) = {} => DOMAIN IndexOf(side) = {}
    /\ pc = "single.return" =>
          /\ <<>> \notin Elems(MissingKeys) \cup Elems(ExtraKeys)
          /\ result.unique_a = Cardinality(KeySet("a"))
          /\ result.unique_b = Cardinality(KeySet("b"))
          /\ result.total_rows_a = Len(a_series)
          /\ result.total_rows_b = Len(b_series)
          /\ NonBlankRows("a") = {} => result.unique_a = 0
          /\ NonBlankRows("b") = {} => result.unique_b = 0

\* a target column of two whitespace-only cells, a source column with
\* empty cells around "a"
C4_Witness ==
    /\ pc = "single.return"
    /\ a_series = <<<<>>, <<97>>, <<>>>>
    /\ b_series = <<<<SP>>, <<SP>>>>
    /\ result.unique_a = 1 /\ result.total_rows_a = 3
    /\ result.unique_b = 0 /\ result.total_rows_b = 2
    /\ MissingKeys = <<<<97>>>>

\* C5: build_index_map_multi skips a row if and only if every part of its
\* key is empty; any other row is indexed under the full ordered tuple of its
\* normalized parts, so rows share a key only when their parts agree position
\* by position in the column order chosen.
C5_MultiSkipsOnlyAllBlank ==
    pc = "index_multi.return" =>
        \A side \in {"a", "b"} :
            LET idx == IndexOf(side)
                keys_nb == IF side = "a" THEN index.a.keys_nb ELSE index.b.keys_nb
                listed(i) == \E k \in DOMAIN idx : (i + 1) \in Elems(idx[k])
            IN  /\ \A i \in 1..NumRows(side) :
                      /\ IsBlank(KeyAt(side, i)) <=> ~listed(i)
                      /\ ~IsBlank(KeyAt(side, i)) =>
                            /\ KeyAt(side, i) \in DOMAIN idx
                            /\ (i + 1) \in Elems(idx[KeyAt(side, i)])
                /\ \A k \in DOMAIN idx : \A r1, r2 \in Elems(idx[k]) :
                      \A j \in 1..NumCols : KeyAt(side, r1 - 1)[j] = KeyAt(side, r2 - 1)[j]
                /\ Len(keys_nb) = Cardinality(NonBlankRows(side))
                /\ Elems(keys_nb) = DOMAIN idx

\* source rows ("x", "") and ("", "") under the columns (B, A): the first is
\* indexed as ("", "x"), the second skipped; target rows ("X ", "y") and
\* ("y", "x") under (A, B) are two keys
C5_Witness ==
    /\ pc = "index_multi.return"
    /\ src_df = <<MkRow(<<120>>, <<>>), MkRow(<<>>, <<>>)>>
    /\ src_cols = <<"B", "A">>
    /\ index.a.idx_map = (<<<<>>, <<120>>>> :> <<2>>)
    /\ d365_df = <<MkRow(<<88, SP>>, <<121>>), MkRow(<<121>>, <<120>>)>>
    /\ d365_cols = <<"A", "B">>
    /\ DOMAIN index.b.idx_map = {<<<<120>>, <<121>>>>, <<<<121>>, <<120>>>>}

\* C6: in every index built, of one column or of several, the provenance
\* list of a key is non-empty, strictly ascending and holds exactly p + 2 for
\* the 0-based positions p of the rows with that key.
C6_ProvenanceRows ==
    Indexed =>
        \A side \in {"a", "b"} :
            LET idx == IndexOf(side)
            IN  \A k \in DOMAIN idx :
                    /\ idx[k] # <<>>
                    /\ \A i \in 1..(Len(idx[k]) - 1) : idx[k][i] < idx[k][i + 1]
                    /\ Elems(idx[k]) = {(i - 1) + 2 : i \in RowsOf(side, k)}

\* source ["a", "", " A"]: the key "a" comes from rows 2 and 4
C6_Witness ==
    /\ pc = "index_single.return"
    /\ a_series = <<<<97>>, <<>>, <<SP, 65>>>>
    /\ index.a.index_map = (<<97>> :> <<2, 4>>)

\* an upper-case letter (str.isupper()) of the alphabet
IsUpper(c) == c \in 65..90 \/ c = 8450

\* what C7 says of the value returned, but for the upper-case letters
IsNormalized(s) ==
    /\ s # None /\ s # Unset
    /\ \A i \in 1..Len(s) : s[i] >= 0
    /\ norm_val(s) = s
    /\ s # <<>> => (~IsSpace(s[1]) /\ ~IsSpace(s[Len(s)]))
    /\ \A i \in 1..Len(s) : s[i] # NBSP
    /\ \A i \in 1..(Len(s) - 1) : ~(IsSpace(s[i]) /\ IsSpace(s[i + 1]))

\* C7 as claimed: norm_val returns, for every raw value, a string that is a
\* fixed point of norm_val, with no leading or trailing whitespace, no
\* non-breaking space, no upper-case letter and no run of whitespace.
C7_AsClaimed ==
    pc = "norm_val.return" =>
        /\ IsNormalized(normed)
        /\ \A i \in 1..Len(normed) : ~IsUpper(normed[i])

\* C7 as amended: as claimed, but the result is free only of the upper-case
\* letters that have a lower-case form (an upper-case letter without one,
\* such as U+2102, is returned as it is).
C7_NormValTotalIdempotent ==
    pc = "norm_val.return" =>
        /\ IsNormalized(normed)
        /\ \A i \in 1..Len(normed) : LowerChar(normed[i]) = normed[i]
        /\ \A i \in 1..Len(normed) : normed[i] \notin 65..90

\* "A", NBSP, TAB, "a" gives "a a"
C7_Witness ==
    /\ pc = "norm_val.return"
    /\ raw = <<65, NBSP, 9, 97>>
    /\ normed = <<97, SP, 97>>

\* C8: unique-only mode is symmetric: the keys missing when A is the source
\* and B the target are the keys extra when B is the source and A the
\* target, in the same order and with the same row numbers, and the other
\* way round; the two counts swap.
C8_UniqueModeSymmetry ==
    (Compared /\ remove_dupes) =>
        LET swapped ==
                IF IsSingle
                THEN compare_values_single(b_series, a_series, TRUE)
                ELSE compare_values_multi_unordered(d365_df, src_df, d365_cols,
                                                    src_cols, TRUE)
            swappedMissing ==
                [i \in 1..Len(swapped.missing_details) |->
                    KeyOfEntry(swapped.missing_details[i], "source", d365_cols)]
            swappedExtra ==
                [i \in 1..Len(swapped.extra_details) |->
                    KeyOfEntry(swapped.extra_details[i], "d365", src_cols)]
        IN  /\ MissingKeys = swappedExtra
            /\ ExtraKeys = swappedMissing
            /\ \A i \in 1..Len(MissingKeys) :
                  result.missing_details[i]["source_lines"]
                      = swapped.extra_details[i]["d365_lines"]
            /\ \A i \in 1..Len(ExtraKeys) :
                  result.extra_details[i]["d365_lines"]
                      = swapped.missing_details[i]["source_lines"]
            /\ result.missing_count = swapped.extra_count
            /\ result.extra_count = swapped.missing_count

\* source rows ("x", ""), ("x", "Y") against target rows ("y", "x"),
\* ("X ", "y") under (A, B) on both sides: ("x", "") is missing from row 2,
\* ("y", "x") is extra from row 2
C8_Witness ==
    /\ pc = "multi.return" /\ remove_dupes
    /\ src_df = <<MkRow(<<120>>, <<>>), MkRow(<<120>>, <<89>>)>>
    /\ d365_df = <<MkRow(<<121>>, <<120>>), MkRow(<<88, SP>>, <<121>>)>>
    /\ src_cols = <<"A", "B">> /\ d365_cols = <<"A", "B">>
    /\ MissingKeys = <<<<<<120>>, <<>>>>>>
    /\ ExtraKeys = <<<<<<121>>, <<120>>>>>>
    /\ result.missing_details[1]["source_lines"] = "2"
    /\ result.extra_details[1]["d365_lines"] = "2"

\* the fields the summary record is written with: row totals, unique-key
\* totals, missing and extra totals, the mode and the columns compared
CountAndLabelFields ==
    {"source_rows", "d365_rows", "source_unique", "d365_unique",
     "source_unique_keys", "d365_unique_keys", "missing_in_d365", "extra_in_d365",
     "remove_duplicates", "source_column", "d365_column", "source_columns",
     "d365_columns"}

\* round((missing + extra) / unique_a * 100, 2), in hundredths of a percent
\* (the nearest hundredth), or the sentinel when there is no source key
MismatchPercentage(missing, extra, unique_a) ==
    IF unique_a > 0
    THEN (2 * (missing + extra) * 10000 + unique_a) \div (2 * unique_a)
    ELSE "N/A"

\* C9 as claimed: the summary record of every comparison carries the
\* mismatch percentage round((missing + extra) / unique_a * 100, 2), or a
\* "not applicable" sentinel when unique_a = 0.
C9_AsClaimed ==
    out.kind \in {"single", "multi"} =>
        \E f \in DOMAIN out.summary \ CountAndLabelFields :
            out.summary[f] =
                MismatchPercentage(out.summary.missing_in_d365,
                                   out.summary.extra_in_d365,
                                   out.results[IF out.kind = "single" THEN "unique_a"
                                               ELSE "source_unique"])

HasRepeat(cols) == \E i, j \in 1..Len(cols) : i # j /\ cols[i] = cols[j]

\* C10: on the multi-column page, when a column is selected more than once
\* among the source columns or among the target columns, the click on
\* "Compare Selected Columns" is rejected before any index is built:
\* compare_values_multi_unordered is not called and the run renders no
\* summary, no missing or extra records and no export.
C10_DuplicateSelectionRejected ==
    (pc = "app.compare_selected" /\ (HasRepeat(src_cols) \/ HasRepeat(d365_cols))) =>
        /\ out.kind = "error"
        /\ out.message # ""
        /\ out.calls = <<>>
        /\ out.results = Unset
        /\ out.summary = Unset
        /\ out.export = Unset
        /\ result = Unset

\* source columns (A, B), target columns (B, B)
C10_Witness ==
    /\ pc = "app.compare_selected"
    /\ src_cols = <<"A", "B">>
    /\ d365_cols = <<"B", "B">>
    /\ Loaded(session_state)
    /\ out.kind = "error"
    /\ out.message = "D365 columns contain duplicates. Please pick distinct D365 columns."

-----------------------------------------------------------------------------
(* The file scripts *)

FilesEnded ==
    pc \in {"customers_wholesale.raise", "customers_wholesale.return",
            "handling_type.raise", "handling_type.return"}

\* the table of a side and the column names asked of it
TableOf(side) == IF side = "a" THEN src_df ELSE d365_df
Requested(side) == IF side = "a" THEN src_cols ELSE d365_cols

\* the requested names that, normalized, are no normalized column of the table
NotFound(side) ==
    {c \in Elems(Requested(side)) : norm_col(c) \notin Elems(norm_columns(TableOf(side)))}

\* the message names the column c, as it was asked for or normalized
NamesColumn(message, c) ==
    \/ "column" \in DOMAIN message /\ message.column = show(c)
    \/ "not_found" \in DOMAIN message /\ norm_col(c) \in Elems(message.not_found)
    \/ "key" \in DOMAIN message /\ norm_col(c) \in Elems(message.key)

\* the message lists the normalized column names of the table
ListsAvailable(message, df) ==
    "available" \in DOMAIN message /\ message.available = norm_columns(df)

\* C11: when a requested column name (the key column or a compare column, of
\* the source or of the target table) is, after normalization, not among the
\* table's normalized column names, compare_files raises before any value is
\* extracted or compared, and the error names the offending column and lists
\* the table's normalized column names.
C11_AsClaimed ==
    (FilesEnded /\ (NotFound("a") # {} \/ NotFound("b") # {})) =>
        /\ result.raised = "KeyError"
        /\ result.steps = <<>>
        /\ \E side \in {"a", "b"} : \E c \in NotFound(side) :
            /\ NamesColumn(result.message, c)
            /\ ListsAvailable(result.message, TableOf(side))

-----------------------------------------------------------------------------
(* The row-number strings *)

\* the places of a text, from start on, where the separator ", " begins
Separators(text, start) ==
    {i \in start..(Len(text) - 1) : SubSeq(text, i, i + 1) = ", "}

\* the pieces of a text between the separators ", ", from start on
RECURSIVE TextParts(_, _)
TextParts(text, start) ==
    IF Separators(text, start) = {} THEN <<SubSeq(text, start, Len(text))>>
    ELSE LET i == CHOOSE x \in Separators(text, start) :
                      \A y \in Separators(text, start) : x <= y
         IN  <<SubSeq(text, start, i - 1)>> \o TextParts(text, i + 2)

\* the numbers a text shows: none for the empty text
NumbersIn(text) == IF text = "" THEN <<>> ELSE TextParts(text, 1)

\* the first k of the row numbers, each as it is written
Written(rows, k) == [i \in 1..k |-> ToString(rows[i])]

\* what C12 says of the text returned for the row numbers rows under limit k;
\* the suffix is read off the end of the text and the numbers off the rest
AsC12Says(text, rows, k) ==
    IF rows = <<>> THEN text = ""
    ELSE IF Len(rows) <= k THEN NumbersIn(text) = Written(rows, Len(rows))
    ELSE LET suffix == ", ... (+" \o ToString(Len(rows) - k) \o " more)"
             cut == Len(text) - Len(suffix)
         IN  /\ cut >= 0
             /\ SubSeq(text, cut + 1, Len(text)) = suffix
             /\ NumbersIn(SubSeq(text, 1, cut)) = Written(rows, k)
             /\ Len(NumbersIn(SubSeq(text, 1, cut))) + (Len(rows) - k) = Len(rows)

\* a set of numbers in ascending order
RECURSIVE SortedNums(_)
SortedNums(S) ==
    IF S = {} THEN <<>>
    ELSE LET m == CHOOSE x \in S : \A y \in S : x <= y
         IN  <<m>> \o SortedNums(S \ {m})

\* the spreadsheet rows of a side that hold the key k, ascending
RowNumbers(side, k) == SortedNums({(i - 1) + 2 : i \in RowsOf(side, k)})

\* the lines fields of a record of the result follow C12 under the default limit
LinesFields(entry, k) ==
    /\ "source_lines" \in DOMAIN entry =>
           AsC12Says(entry["source_lines"], RowNumbers("a", k), DefaultLimit)
    /\ "d365_lines" \in DOMAIN entry =>
           AsC12Says(entry["d365_lines"], RowNumbers("b", k), DefaultLimit)

\* C12: format_lines(lines, limit) returns the empty string for an empty
\* list, the n numbers in order joined by ", " when n <= limit, and otherwise
\* the first limit numbers in order followed by ", ... (+(n - limit) more)",
\* so that the numbers shown and the remainder stated add up to n; the
\* default limit is 50, and every source_lines and d365_lines field of a
\* comparison is the text of the rows of its key under that limit.
C12_FormatLines ==
    /\ DefaultLimit = 50
    /\ pc = "format_lines.return" => AsC12Says(result, fl_lines, fl_limit)
    /\ Compared =>
        /\ \A i \in 1..Len(result.missing_details) :
               LinesFields(result.missing_details[i], MissingKeys[i])
        /\ \A i \in 1..Len(result.extra_details) :
               LinesFields(result.extra_details[i], ExtraKeys[i])

\* the rows 2 .. 53 under the default limit: the rows 2 .. 51 are shown and
\* two more are stated
C12_Witness ==
    /\ pc = "format_lines.return"
    /\ Len(fl_lines) = 52
    /\ fl_limit = 50
    /\ Len(NumbersIn(result)) = 51
    /\ NumbersIn(result)[50] = "51"
    /\ NumbersIn(result)[51] = "... (+2 more)"

-----------------------------------------------------------------------------
(* The session *)

\* the keys the script keeps in the session state
SessionKeys == {"src_df", "d365_df", "loaded"}

\* the run under way called a comparison function
ComparisonRan == out.calls # <<>>

\* C13: after any sequence of clicks on "Load Data", failed at any step or
\* not, and on "Reset App": whenever the flag loaded is true the session
\* state holds both src_df and d365_df; after "Reset App" it holds none of
\* src_df, d365_df and loaded; and a comparison runs only when loaded is true.
C13_SessionInvariant ==
    /\ Loaded(session_state) => {"src_df", "d365_df"} \subseteq DOMAIN session_state
    /\ pc = "app.reset" => DOMAIN session_state \cap SessionKeys = {}
    /\ ComparisonRan => Loaded(session_state)

\* a click on "Load Data" that fails at the query, after one that succeeded:
\* loaded is still true and both tables are there
C13_Witness ==
    /\ pc = "app.load_data"
    /\ out.kind = "error"
    /\ out.message = "SQL error"
    /\ Loaded(session_state)
    /\ session_state["d365_df"] # <<>>
    /\ {"src_df", "d365_df"} \subseteq DOMAIN session_state

\* C14 as claimed: a click on "Load Data" that fails, for a missing input,
\* a file that cannot be read or a connection or SQL error, leaves src_df,
\* d365_df and loaded as they were, so that the two tables a comparison
\* reads were stored by the same successful click.
C14_AsClaimed ==
    [][(pc' = "app.load_data" /\ out'.kind = "error") =>
           session_state' = session_state]_vars

=============================================================================
